---- MODULE Spec2Model ----
(***************************************************************************)
(* A model of rag_abstract_8.py: a step-back RAG pipeline.                 *)
(*                                                                         *)
(*   SpecProvision  get_retriever run by concurrent provisioners against   *)
(*                  one shared Pinecone store                              *)
(*   SpecIndexName  get_index_name as a pure function of (prefix, path)    *)
(*   SpecUnion      get_unique_union over a retrieved result list          *)
(*   Spec           main: set_env, the preparation stages and the          *)
(*                  invocation of the final chain                          *)
(*                                                                         *)
(* Strings that the code takes apart are sequences of one-character        *)
(* strings.                                                                *)
(***************************************************************************)
EXTENDS Integers, Sequences, FiniteSets, TLC

VARIABLES
    \* ---- the Pinecone store and the provisioners (get_retriever)
    indexes,        \* names the store lists (pc.list_indexes())
    vectors,        \* index name -> number of vectors upserted into it
    pc,             \* provisioner -> position inside get_retriever
    name,           \* provisioner -> index_name argument of the current call
    calls,          \* provisioner -> calls started so far
    listedAtCheck,  \* provisioner -> the store listed the name when this call looked
    creates,        \* provisioner -> create_index attempts of the current call
    upserts,        \* provisioner -> chunks upserted by the current call
    rejected,       \* provisioner -> the store rejected this call's create_index
    handle          \* provisioner -> index the returned retriever refers to

VARIABLES
    \* ---- get_index_name as a function applied to one input pair
    prefix,         \* the prefix argument
    data_source,    \* the data_source argument (a path)
    index_name,     \* what the call produced
    namePc          \* "call" before the call, "done" after it

VARIABLES
    \* ---- get_unique_union applied to one retrieved result list
    documents,      \* the list the retriever returned
    context,        \* the list get_unique_union returned
    unionPc         \* "call" before the call, "done" after it

VARIABLES
    \* ---- one run of main
    env,            \* os.environ: variable -> value, Unset when absent
    stage,          \* the statement of main that runs next
    error,          \* the exception that left main, "none" if none did
    acted,          \* the stages after set_env that have been entered
    branch,         \* branch of the parallel step -> its position
    searches,       \* the queries the retriever has been invoked with
    reformulated,   \* the step-back question is available
    synthCalls,     \* invocations of the synthesis LLM
    answer,         \* the synthesis LLM has produced the answer
    printed         \* main has printed the {question, answer} result

provVars == <<indexes, vectors, pc, name, calls, listedAtCheck, creates,
              upserts, rejected, handle>>
nameVars == <<prefix, data_source, index_name, namePc>>
unionVars == <<documents, context, unionPc>>
mainVars == <<env, stage, error, acted, branch, searches, reformulated,
              synthCalls, answer, printed>>

vars == <<provVars, nameVars, unionVars, mainVars>>

notProv == <<nameVars, unionVars, mainVars>>
notName == <<provVars, unionVars, mainVars>>
notUnion == <<provVars, nameVars, mainVars>>
notMain == <<provVars, nameVars, unionVars>>

----------------------------------------------------------------------------
(* Bounds *)

NumChunks == 2
MaxCalls == 2

Procs == {"p1", "p2"}
IndexNames == {"rag-a", "rag-b"}
NoHandle == "none"
NoResult == [raised |-> "none", value |-> <<>>]

----------------------------------------------------------------------------
(* get_retriever, lines 64-82 *)

\* line 69: sum([index.name==index_name for index in list_indexes]) == 1
IndexListed(wanted, listed) ==
    Cardinality({i \in listed : i = wanted}) = 1

\* a faulty variant of IsNewIndex: the existence test is skipped
IsNewIndexAlways(wanted, listed) == TRUE

\* lines 69-73: the value _create_pinecone_index is about to return;
\* TRUE means it goes on to pc.create_index
IsNewIndex(wanted, listed) == ~IndexListed(wanted, listed)

InFlight(p) == pc[p] \in {"probe", "list", "create", "upsert", "existing"}

ProvInit ==
    /\ indexes = {}
    /\ vectors = [n \in IndexNames |-> 0]
    /\ pc = [p \in Procs |-> "idle"]
    /\ name = [p \in Procs |-> "rag-a"]
    /\ calls = [p \in Procs |-> 0]
    /\ listedAtCheck = [p \in Procs |-> FALSE]
    /\ creates = [p \in Procs |-> 0]
    /\ upserts = [p \in Procs |-> 0]
    /\ rejected = [p \in Procs |-> FALSE]
    /\ handle = [p \in Procs |-> NoHandle]

\* line 64: a call of get_retriever(docs, k, index_name) begins
StartCall(p, n) ==
    /\ ~InFlight(p)
    /\ calls[p] < MaxCalls
    /\ pc' = [pc EXCEPT ![p] = "probe"]
    /\ name' = [name EXCEPT ![p] = n]
    /\ calls' = [calls EXCEPT ![p] = @ + 1]
    /\ listedAtCheck' = [listedAtCheck EXCEPT ![p] = FALSE]
    /\ creates' = [creates EXCEPT ![p] = 0]
    /\ upserts' = [upserts EXCEPT ![p] = 0]
    /\ rejected' = [rejected EXCEPT ![p] = FALSE]
    /\ handle' = [handle EXCEPT ![p] = NoHandle]
    /\ UNCHANGED <<indexes, vectors>>
    /\ UNCHANGED notProv

\* lines 75-76: embedder.embed_documents(['a']) is evaluated first, as the
\* argument dim of _create_pinecone_index
EmbedProbe(p) ==
    /\ pc[p] = "probe"
    /\ pc' = [pc EXCEPT ![p] = "list"]
    /\ UNCHANGED <<indexes, vectors, name, calls, listedAtCheck, creates,
                   upserts, rejected, handle>>
    /\ UNCHANGED notProv

\* lines 68-71: pc.list_indexes() and the existence test
ListIndexes(p) ==
    /\ pc[p] = "list"
    /\ listedAtCheck' = [listedAtCheck EXCEPT ![p] = name[p] \in indexes]
    /\ pc' = [pc EXCEPT ![p] =
                IF IsNewIndex(name[p], indexes) THEN "create" ELSE "existing"]
    /\ UNCHANGED <<indexes, vectors, name, calls, creates, upserts,
                   rejected, handle>>
    /\ UNCHANGED notProv

\* line 72: pc.create_index succeeds; _create_pinecone_index returns True
CreateIndex(p) ==
    /\ pc[p] = "create"
    /\ name[p] \notin indexes
    /\ indexes' = indexes \cup {name[p]}
    /\ creates' = [creates EXCEPT ![p] = @ + 1]
    /\ pc' = [pc EXCEPT ![p] = "upsert"]
    /\ UNCHANGED <<vectors, name, calls, listedAtCheck, upserts, rejected,
                   handle>>
    /\ UNCHANGED notProv

\* line 72: the store rejects pc.create_index for a name it already holds;
\* nothing in get_retriever catches the exception
CreateRejected(p) ==
    /\ pc[p] = "create"
    /\ name[p] \in indexes
    /\ creates' = [creates EXCEPT ![p] = @ + 1]
    /\ rejected' = [rejected EXCEPT ![p] = TRUE]
    /\ pc' = [pc EXCEPT ![p] = "failed"]
    /\ UNCHANGED <<indexes, vectors, name, calls, listedAtCheck, upserts,
                   handle>>
    /\ UNCHANGED notProv

\* line 77: from_documents embeds and upserts the chunks, one step per chunk
UpsertChunk(p) ==
    /\ pc[p] = "upsert"
    /\ upserts[p] < NumChunks
    /\ vectors' = [vectors EXCEPT ![name[p]] = @ + 1]
    /\ upserts' = [upserts EXCEPT ![p] = @ + 1]
    /\ UNCHANGED <<indexes, pc, name, calls, listedAtCheck, creates,
                   rejected, handle>>
    /\ UNCHANGED notProv

\* lines 77, 81-82: from_documents is through; the retriever is returned
FromDocumentsReturn(p) ==
    /\ pc[p] = "upsert"
    /\ upserts[p] = NumChunks
    /\ pc' = [pc EXCEPT ![p] = "returned"]
    /\ handle' = [handle EXCEPT ![p] = name[p]]
    /\ UNCHANGED <<indexes, vectors, name, calls, listedAtCheck, creates,
                   upserts, rejected>>
    /\ UNCHANGED notProv

\* lines 79, 81-82: from_existing_index; the retriever is returned
FromExistingIndex(p) ==
    /\ pc[p] = "existing"
    /\ pc' = [pc EXCEPT ![p] = "returned"]
    /\ handle' = [handle EXCEPT ![p] = name[p]]
    /\ UNCHANGED <<indexes, vectors, name, calls, listedAtCheck, creates,
                   upserts, rejected>>
    /\ UNCHANGED notProv

\* lines 75-79: the embedder or the store raises at the call the provisioner
\* is about to make; the exception leaves get_retriever
CollaboratorFails(p) ==
    /\ InFlight(p)
    /\ pc' = [pc EXCEPT ![p] = "failed"]
    /\ UNCHANGED <<indexes, vectors, name, calls, listedAtCheck, creates,
                   upserts, rejected, handle>>
    /\ UNCHANGED notProv

ProvNext ==
    \E p \in Procs :
        \/ \E n \in IndexNames : StartCall(p, n)
        \/ EmbedProbe(p)
        \/ ListIndexes(p)
        \/ CreateIndex(p)
        \/ CreateRejected(p)
        \/ UpsertChunk(p)
        \/ FromDocumentsReturn(p)
        \/ FromExistingIndex(p)
        \/ CollaboratorFails(p)

----------------------------------------------------------------------------
(* Claims about get_retriever *)

\* C1: a call of get_retriever that finds its index_name listed by the store
\* makes no create_index attempt and upserts nothing, and when it returns it
\* returns a retriever on that index; so however many calls are made with
\* the same chunks, an index never holds more vectors than one call upserts.
C1_ProvisionIdempotent ==
    /\ \A p \in Procs :
          listedAtCheck[p] =>
              /\ creates[p] = 0
              /\ upserts[p] = 0
              /\ pc[p] \in {"existing", "returned", "failed"}
              /\ (pc[p] = "returned" => handle[p] = name[p])
    /\ \A n \in IndexNames : vectors[n] <= NumChunks

\* A second call by one provisioner found the index listed and returned a
\* retriever on the fully populated index.
C1_Witness ==
    \E p \in Procs :
        /\ calls[p] >= 2
        /\ listedAtCheck[p]
        /\ pc[p] = "returned"
        /\ vectors[name[p]] = NumChunks

\* C2: a failed call returns no handle, and every returned handle refers to
\* an index holding all the chunks (read once no other call is under way,
\* so that a populated-later index is not counted against the claim).
C2_FailureAtomic ==
    \A p \in Procs :
        /\ (pc[p] = "failed" => handle[p] = NoHandle)
        /\ (/\ pc[p] = "returned"
            /\ \A q \in Procs \ {p} : ~InFlight(q))
           => vectors[handle[p]] = NumChunks

\* C3: a provisioner whose create_index the store rejected as already
\* existing does not fail (it goes on as in the existing-index case).
C3_RejectedCreateReusesIndex ==
    \A p \in Procs : rejected[p] => pc[p] # "failed"


----------------------------------------------------------------------------
(* get_index_name, lines 35-38 *)

\* line 37: the slice [:45]
MaxIndexNameLen == 45

MaxPathLen == 4
MaxPrefixLen == 1

UpperCase == <<"A", "B", "C", "D", "E", "F", "G", "H", "I", "J", "K", "L", "M",
               "N", "O", "P", "Q", "R", "S", "T", "U", "V", "W", "X", "Y", "Z">>
LowerCase == <<"a", "b", "c", "d", "e", "f", "g", "h", "i", "j", "k", "l", "m",
               "n", "o", "p", "q", "r", "s", "t", "u", "v", "w", "x", "y", "z">>
Digits == {"0", "1", "2", "3", "4", "5", "6", "7", "8", "9"}

\* the character class [a-z0-9] of line 37
LowerAlnum == {LowerCase[i] : i \in 1..Len(LowerCase)} \cup Digits

\* str.lower() on one character
LowerChar(c) ==
    IF \E i \in 1..Len(UpperCase) : UpperCase[i] = c
    THEN LowerCase[CHOOSE i \in 1..Len(UpperCase) : UpperCase[i] = c]
    ELSE c

\* str.lower()
Lower(s) == [i \in 1..Len(s) |-> LowerChar(s[i])]

\* os.path.basename: what follows the last "/"
Basename(path) ==
    LET slashes == {i \in 1..Len(path) : path[i] = "/"}
    IN  IF slashes = {} THEN path
        ELSE SubSeq(path, (CHOOSE i \in slashes : \A j \in slashes : j <= i) + 1,
                    Len(path))

\* re.split(r'[.]', s) and str.split(' '): the pieces between the
\* occurrences of sep, empty pieces kept
RECURSIVE SplitOn(_, _)
SplitOn(s, sep) ==
    LET hits == {i \in 1..Len(s) : s[i] = sep}
    IN  IF hits = {} THEN <<s>>
        ELSE LET i == CHOOSE h \in hits : \A j \in hits : h <= j
             IN  <<SubSeq(s, 1, i - 1)>> \o SplitOn(SubSeq(s, i + 1, Len(s)), sep)

\* the slice [-n:]
LastN(parts, n) ==
    SubSeq(parts, IF Len(parts) > n THEN Len(parts) - n + 1 ELSE 1, Len(parts))

\* the slice [:n]
FirstN(s, n) == SubSeq(s, 1, IF Len(s) > n THEN n ELSE Len(s))

\* sep.join(parts)
RECURSIVE Join(_, _)
Join(parts, sep) ==
    IF Len(parts) = 0 THEN <<>>
    ELSE IF Len(parts) = 1 THEN parts[1]
    ELSE parts[1] \o <<sep>> \o Join(Tail(parts), sep)

\* re.sub(r'[^a-z0-9]', '-', s)
Hyphenate(s) == [i \in 1..Len(s) |-> IF s[i] \in LowerAlnum THEN s[i] ELSE "-"]

\* re.sub(r'-{1,}', '-', s): every run of hyphens becomes one hyphen
RECURSIVE CollapseHyphens(_)
CollapseHyphens(s) ==
    IF Len(s) <= 1 THEN s
    ELSE IF s[1] = "-" /\ s[2] = "-" THEN CollapseHyphens(Tail(s))
    ELSE <<s[1]>> \o CollapseHyphens(Tail(s))

\* lines 36-38. re.split(...)[:-1][0] raises IndexError when the basename
\* holds no "."
get_index_name(pfx, source) ==
    LET pieces == SplitOn(Basename(source), ".")
        butLast == SubSeq(pieces, 1, Len(pieces) - 1)
    IN  IF Len(butLast) = 0
        THEN [raised |-> "IndexError", value |-> <<>>]
        ELSE LET words == LastN(SplitOn(butLast[1], " "), 5)
                 first == pfx \o <<":">> \o Lower(Join(words, " "))
             IN  [raised |-> "none",
                  value |-> FirstN(CollapseHyphens(Hyphenate(first)),
                                   MaxIndexNameLen)]

RECURSIVE StringsUpTo(_, _)
StringsUpTo(alphabet, n) ==
    IF n = 0 THEN {<<>>}
    ELSE LET shorter == StringsUpTo(alphabet, n - 1)
         IN  shorter \cup {<<c>> \o s : c \in alphabet, s \in shorter}

PathAlphabet == {"a", "Z", "7", "_", " ", ".", "/"}
PrefixAlphabet == {"r", "R", "-"}

\* line 160: the prefix main passes
MainPrefix == <<"r", "a", "g", "-", "a", "b", "s", "t", "r", "a", "c", "t", "-", "8">>

\* a prefix one character short of the cap
LongPrefix == [i \in 1..(MaxIndexNameLen - 1) |-> "x"]

Prefixes == {MainPrefix, LongPrefix} \cup StringsUpTo(PrefixAlphabet, MaxPrefixLen)

Paths ==
    StringsUpTo(PathAlphabet, MaxPathLen)
    \cup { <<"d", "/", "M", "y", " ", "P", "a", "p", "e", "r", ".", "v", "2", ".",
             "p", "d", "f">>,
           <<"a", " ", "b", " ", "c", " ", "d", " ", "e", " ", "f", " ", "g", ".",
             "p", "d", "f">>,
           <<"n", "o", "t", "e", "s", "_", ".", "p", "d", "f">>,
           <<"R", "E", "A", "D", "M", "E">> }

NameInit ==
    /\ prefix \in Prefixes
    /\ data_source \in Paths
    /\ index_name = NoResult
    /\ namePc = "call"

\* line 160: index_name = get_index_name(prefix, data_source)
CallGetIndexName ==
    /\ namePc = "call"
    /\ index_name' = get_index_name(prefix, data_source)
    /\ namePc' = "done"
    /\ UNCHANGED <<prefix, data_source>>
    /\ UNCHANGED notName

NameNext == CallGetIndexName

\* ^[a-z0-9]+(-[a-z0-9]+)*$
MatchesIdPattern(s) ==
    /\ Len(s) >= 1
    /\ \A i \in 1..Len(s) : s[i] \in LowerAlnum \cup {"-"}
    /\ s[1] # "-"
    /\ s[Len(s)] # "-"
    /\ \A i \in 1..(Len(s) - 1) : ~(s[i] = "-" /\ s[i + 1] = "-")

\* C4: for every (prefix, filename) pair get_index_name returns a value, the
\* value matches ^[a-z0-9]+(-[a-z0-9]+)*$ and it is at most 45 long.
C4_IndexNameWellFormed ==
    namePc = "done" =>
        /\ index_name.raised = "none"
        /\ MatchesIdPattern(index_name.value)
        /\ Len(index_name.value) <= MaxIndexNameLen

----------------------------------------------------------------------------
(* get_unique_union, lines 112-119 *)

MaxDocs == 2

Contents == {"x", "y"}
MetaKeys == {"page", "source"}
MetaValues == {"0", "1"}

\* a metadata dict: its items in insertion order, no key twice
MetaDicts ==
    {<<>>}
    \cup {<<<<k, v>>>> : k \in MetaKeys, v \in MetaValues}
    \cup UNION {{<<<<k1, v1>>, <<k2, v2>>>> :
                    k2 \in MetaKeys \ {k1}, v1 \in MetaValues, v2 \in MetaValues} :
                k1 \in MetaKeys}

\* a retrieved Document
Documents == [page_content : Contents, metadata : MetaDicts]

Range(f) == {f[i] : i \in DOMAIN f}

\* dict equality: the same items, in whatever order they were inserted
SameDict(m1, m2) == Range(m1) = Range(m2)

\* a faulty variant of dumps: the metadata is left out of the text
dumpsContentOnly(doc) == <<"Document", doc.page_content, <<>>>>

\* line 115: dumps(doc), the JSON text of the document; a dict is written
\* item by item in its insertion order
dumps(doc) == <<"Document", doc.page_content, doc.metadata>>

\* line 119: loads(text), the document the JSON text describes
loads(text) == [page_content |-> text[2], metadata |-> text[3]]

\* line 117: list(set(flattened_docs)) lists the distinct strings in an order
\* the set decides
Listings(strings) ==
    {l \in [1..Cardinality(strings) -> strings] : Range(l) = strings}

UnionInit ==
    /\ documents \in UNION {[1..n -> Documents] : n \in 0..MaxDocs}
    /\ context = <<>>
    /\ unionPc = "call"

\* lines 115-119
get_unique_union ==
    /\ unionPc = "call"
    /\ LET flattened_docs == [i \in 1..Len(documents) |-> dumps(documents[i])]
       IN  \E unique_docs \in Listings(Range(flattened_docs)) :
               context' = [i \in 1..Len(unique_docs) |->
                              loads(unique_docs[i]).page_content]
    /\ unionPc' = "done"
    /\ UNCHANGED documents
    /\ UNCHANGED notUnion

UnionNext == get_unique_union

Occurrences(list, c) == Cardinality({i \in 1..Len(list) : list[i] = c})

----------------------------------------------------------------------------
(* set_env, lines 18-33 *)

Unset == "<unset>"

Credentials == {"GROQ_API_KEY", "PINECONE_API_KEY"}
TracingVars == {"LANGCHAIN_TRACING_V2", "LANGCHAIN_ENDPOINT", "LANGCHAIN_PROJECT"}
EnvNames == {"LANGCHAIN_API_KEY"} \cup Credentials \cup TracingVars

\* lines 19-20: os_param_not_set
os_param_not_set(e, param) == e[param] = Unset \/ e[param] = ""

\* lines 22-24: the three assignments every call makes
AfterTracingSet(e) ==
    [v \in EnvNames |->
        IF v = "LANGCHAIN_TRACING_V2" THEN "true"
        ELSE IF v = "LANGCHAIN_ENDPOINT" THEN "https://api.smith.langchain.com"
        ELSE IF v = "LANGCHAIN_PROJECT" THEN "rag_abstract_8_python"
        ELSE e[v]]

\* lines 25-33: the exception set_env ends with. Line 26 assigns None to an
\* os.environ entry, which os.environ refuses with a TypeError before the
\* credential tests of lines 29 and 32 are reached
set_env_raises(e) ==
    IF os_param_not_set(e, "LANGCHAIN_API_KEY")
    THEN "TypeError: str expected, not NoneType"
    ELSE IF os_param_not_set(e, "GROQ_API_KEY")
    THEN "ValueError: GROQ_API_KEY not set."
    ELSE IF os_param_not_set(e, "PINECONE_API_KEY")
    THEN "ValueError: PINECONE_API_KEY not set."
    ELSE "none"

----------------------------------------------------------------------------
(* main, lines 157-167, and the chain of get_final_rag_chain, lines 140-152 *)

\* the keys of the dict of lines 141-148, run as one parallel step
Branches == {"normal_context", "step_back_context", "question"}

PrepStages == <<"split_pdf", "get_index_name", "get_retriever",
                "get_query_enhance_chain">>

\* a faulty variant of ParallelReady: one ended branch is enough
ParallelReadyAny(b) == \E k \in Branches : b[k] \in {"done", "failed"}

\* lines 141-148: the parallel step hands on its dict when every branch has
\* ended
ParallelReady(b) == \A k \in Branches : b[k] \in {"done", "failed"}

\* a faulty variant of ParallelOutcome: one context is enough to go on
ParallelOutcomeLenient(b) ==
    IF \A k \in Branches \ {"question"} : b[k] = "failed" THEN "raise" ELSE "dict"

\* lines 141-149: a branch that raised makes the parallel step raise; only
\* a complete dict reaches response_prompt
ParallelOutcome(b) ==
    IF \E k \in Branches : b[k] = "failed" THEN "raise" ELSE "dict"

MainInit ==
    /\ env \in {e \in [EnvNames -> {Unset, "", "key"}] :
                  /\ e["LANGCHAIN_ENDPOINT"] = Unset
                  /\ e["LANGCHAIN_PROJECT"] = Unset
                  /\ e["LANGCHAIN_TRACING_V2"] # ""}
    /\ stage = "set_env"
    /\ error = "none"
    /\ acted = {}
    /\ branch = [k \in Branches |-> "idle"]
    /\ searches = {}
    /\ reformulated = FALSE
    /\ synthCalls = 0
    /\ answer = FALSE
    /\ printed = FALSE

\* line 158: set_env(project_name="rag_abstract_8_python")
set_env ==
    /\ stage = "set_env"
    /\ env' = AfterTracingSet(env)
    /\ error' = set_env_raises(env)
    /\ stage' = IF set_env_raises(env) = "none" THEN PrepStages[1] ELSE "failed"
    /\ UNCHANGED <<acted, branch, searches, reformulated, synthCalls, answer,
                   printed>>
    /\ UNCHANGED notMain

\* lines 159-162: split_pdf, get_index_name, get_retriever and
\* get_query_enhance_chain, one after the other
PrepStage(i) ==
    /\ stage = PrepStages[i]
    /\ acted' = acted \cup {PrepStages[i]}
    /\ stage' = IF i < Len(PrepStages) THEN PrepStages[i + 1] ELSE "invoke"
    /\ UNCHANGED <<env, error, branch, searches, reformulated, synthCalls,
                   answer, printed>>
    /\ UNCHANGED notMain

\* lines 159-162: the stage raises (the loader, the splitter, the embedder,
\* the store, the examples file); main catches nothing
PrepStageRaises(i) ==
    /\ stage = PrepStages[i]
    /\ acted' = acted \cup {PrepStages[i]}
    /\ stage' = "failed"
    /\ error' = PrepStages[i]
    /\ UNCHANGED <<env, branch, searches, reformulated, synthCalls, answer,
                   printed>>
    /\ UNCHANGED notMain

\* lines 165-166: final_rag_chain.invoke starts the branches of the dict
Invoke ==
    /\ stage = "invoke"
    /\ stage' = "parallel"
    /\ acted' = acted \cup {"invoke"}
    /\ branch' = [normal_context |-> "search", step_back_context |-> "reformulate",
                  question |-> "lambda"]
    /\ UNCHANGED <<env, error, searches, reformulated, synthCalls, answer,
                   printed>>
    /\ UNCHANGED notMain

\* line 143: RunnableLambda(x["question"]) | retriever
NormalSearch ==
    /\ stage = "parallel"
    /\ branch["normal_context"] = "search"
    /\ searches' = searches \cup {"question"}
    /\ branch' = [branch EXCEPT !["normal_context"] = "union"]
    /\ UNCHANGED <<env, stage, error, acted, reformulated, synthCalls, answer,
                   printed>>
    /\ UNCHANGED notMain

\* line 145: query_enchance_chain produces the step-back question
Reformulate ==
    /\ stage = "parallel"
    /\ branch["step_back_context"] = "reformulate"
    /\ reformulated' = TRUE
    /\ branch' = [branch EXCEPT !["step_back_context"] = "search"]
    /\ UNCHANGED <<env, stage, error, acted, searches, synthCalls, answer,
                   printed>>
    /\ UNCHANGED notMain

\* line 145: ... | retriever, invoked with the step-back question
StepBackSearch ==
    /\ stage = "parallel"
    /\ branch["step_back_context"] = "search"
    /\ searches' = searches \cup {"step_back"}
    /\ branch' = [branch EXCEPT !["step_back_context"] = "union"]
    /\ UNCHANGED <<env, stage, error, acted, reformulated, synthCalls, answer,
                   printed>>
    /\ UNCHANGED notMain

\* lines 143, 145: ... | get_unique_union ends the branch
BranchUnion(k) ==
    /\ stage = "parallel"
    /\ branch[k] = "union"
    /\ branch' = [branch EXCEPT ![k] = "done"]
    /\ UNCHANGED <<env, stage, error, acted, searches, reformulated,
                   synthCalls, answer, printed>>
    /\ UNCHANGED notMain

\* line 147: lambda x: x["question"]
PassQuestion ==
    /\ stage = "parallel"
    /\ branch["question"] = "lambda"
    /\ branch' = [branch EXCEPT !["question"] = "done"]
    /\ UNCHANGED <<env, stage, error, acted, searches, reformulated,
                   synthCalls, answer, printed>>
    /\ UNCHANGED notMain

\* lines 143, 145: the retriever or the reformulating LLM raises in a branch
BranchRaises(k) ==
    /\ stage = "parallel"
    /\ k # "question"
    /\ branch[k] \in {"reformulate", "search"}
    /\ branch' = [branch EXCEPT ![k] = "failed"]
    /\ UNCHANGED <<env, stage, error, acted, searches, reformulated,
                   synthCalls, answer, printed>>
    /\ UNCHANGED notMain

\* lines 141-149: the parallel step ends and its dict goes to response_prompt
JoinParallel ==
    /\ stage = "parallel"
    /\ ParallelReady(branch)
    /\ ParallelOutcome(branch) = "dict"
    /\ stage' = "llm"
    /\ UNCHANGED <<env, error, acted, branch, searches, reformulated,
                   synthCalls, answer, printed>>
    /\ UNCHANGED notMain

\* lines 141-148, 166: the parallel step raises, and so do invoke and main
ParallelRaises ==
    /\ stage = "parallel"
    /\ ParallelReady(branch)
    /\ ParallelOutcome(branch) = "raise"
    /\ stage' = "failed"
    /\ error' = "invoke"
    /\ UNCHANGED <<env, acted, branch, searches, reformulated, synthCalls,
                   answer, printed>>
    /\ UNCHANGED notMain

\* lines 149-151: response_prompt | llm | StrOutputParser()
Synthesize ==
    /\ stage = "llm"
    /\ synthCalls' = synthCalls + 1
    /\ answer' = TRUE
    /\ stage' = "print"
    /\ UNCHANGED <<env, error, acted, branch, searches, reformulated, printed>>
    /\ UNCHANGED notMain

\* line 150: the synthesis LLM is invoked and raises
SynthesizeRaises ==
    /\ stage = "llm"
    /\ synthCalls' = synthCalls + 1
    /\ stage' = "failed"
    /\ error' = "invoke"
    /\ UNCHANGED <<env, acted, branch, searches, reformulated, answer, printed>>
    /\ UNCHANGED notMain

\* line 167: print({"question": question, "answer": answer})
PrintResult ==
    /\ stage = "print"
    /\ printed' = TRUE
    /\ stage' = "done"
    /\ UNCHANGED <<env, error, acted, branch, searches, reformulated,
                   synthCalls, answer>>
    /\ UNCHANGED notMain

MainNext ==
    \/ set_env
    \/ \E i \in 1..Len(PrepStages) : PrepStage(i)
    \/ \E i \in 1..Len(PrepStages) : PrepStageRaises(i)
    \/ Invoke
    \/ NormalSearch
    \/ Reformulate
    \/ StepBackSearch
    \/ \E k \in Branches : BranchUnion(k)
    \/ PassQuestion
    \/ \E k \in Branches : BranchRaises(k)
    \/ JoinParallel
    \/ ParallelRaises
    \/ Synthesize
    \/ SynthesizeRaises
    \/ PrintResult

----------------------------------------------------------------------------
(* The specifications: each runs one part, the others at rest *)

ProvIdle ==
    /\ indexes = {}
    /\ vectors = [n \in IndexNames |-> 0]
    /\ pc = [p \in Procs |-> "idle"]
    /\ name = [p \in Procs |-> "rag-a"]
    /\ calls = [p \in Procs |-> 0]
    /\ listedAtCheck = [p \in Procs |-> FALSE]
    /\ creates = [p \in Procs |-> 0]
    /\ upserts = [p \in Procs |-> 0]
    /\ rejected = [p \in Procs |-> FALSE]
    /\ handle = [p \in Procs |-> NoHandle]

NameIdle ==
    /\ prefix = <<>>
    /\ data_source = <<>>
    /\ index_name = NoResult
    /\ namePc = "call"

UnionIdle ==
    /\ documents = <<>>
    /\ context = <<>>
    /\ unionPc = "call"

MainIdle ==
    /\ env = [v \in EnvNames |-> Unset]
    /\ stage = "set_env"
    /\ error = "none"
    /\ acted = {}
    /\ branch = [k \in Branches |-> "idle"]
    /\ searches = {}
    /\ reformulated = FALSE
    /\ synthCalls = 0
    /\ answer = FALSE
    /\ printed = FALSE

InitProvision == ProvInit /\ NameIdle /\ UnionIdle /\ MainIdle

SpecProvision == InitProvision /\ [][ProvNext]_vars

InitIndexName == NameInit /\ ProvIdle /\ UnionIdle /\ MainIdle

SpecIndexName == InitIndexName /\ [][NameNext]_vars

InitUnion == UnionInit /\ ProvIdle /\ NameIdle /\ MainIdle

SpecUnion == InitUnion /\ [][UnionNext]_vars

Init == MainInit /\ ProvIdle /\ NameIdle /\ UnionIdle

Next == MainNext

Spec == Init /\ [][Next]_vars

----------------------------------------------------------------------------
(* Claims about get_unique_union *)

\* C5: results identical in content and metadata collapse to one entry: the
\* context block has exactly one entry per distinct (content, metadata) pair
\* of the input, and every entry's content comes from some input result.
C5_OneEntryPerDistinctResult ==
    unionPc = "done" =>
        /\ \A c \in Contents :
              Occurrences(context, c) =
                  Cardinality({i \in 1..Len(documents) :
                      /\ documents[i].page_content = c
                      /\ \A j \in 1..(i - 1) :
                            ~(/\ documents[j].page_content = c
                              /\ SameDict(documents[j].metadata,
                                          documents[i].metadata))})
        /\ \A i \in 1..Len(context) :
              \E j \in 1..Len(documents) : context[i] = documents[j].page_content

\* C6: no content string appears more than once in the context block.
C6_ContentsUnique ==
    unionPc = "done" =>
        \A i \in 1..Len(context) : \A j \in 1..Len(context) :
            context[i] = context[j] => i = j

\* C6, as amended: every content string appears in the context block once
\* per distinct serialized result (content, and metadata items in their
\* order) that carries it in the input.
C6_OneEntryPerSerializedResult ==
    unionPc = "done" =>
        \A c \in Contents :
            Occurrences(context, c) =
                Cardinality({<<documents[i].page_content, documents[i].metadata>> :
                    i \in {j \in 1..Len(documents) : documents[j].page_content = c}})

\* Two results with the same content and different metadata went in, and the
\* content is in the context block twice.
C6_Witness ==
    /\ unionPc = "done"
    /\ \E i \in 1..Len(documents) : \E j \in 1..Len(documents) :
          /\ documents[i].page_content = documents[j].page_content
          /\ ~SameDict(documents[i].metadata, documents[j].metadata)
          /\ Occurrences(context, documents[i].page_content) = 2

----------------------------------------------------------------------------
(* Claims about main *)

NamesCredential(err, c) ==
    \/ c = "GROQ_API_KEY" /\ err = "ValueError: GROQ_API_KEY not set."
    \/ c = "PINECONE_API_KEY" /\ err = "ValueError: PINECONE_API_KEY not set."

\* C8: with GROQ_API_KEY or PINECONE_API_KEY absent or empty, whatever the
\* other variables hold, set_env ends the run with an error naming a missing
\* credential, before any later stage is entered.
C8_MissingCredentialNamed ==
    (/\ stage # "set_env"
     /\ \E c \in Credentials : os_param_not_set(env, c))
    => /\ stage = "failed"
       /\ acted = {}
       /\ \E c \in Credentials :
             os_param_not_set(env, c) /\ NamesCredential(error, c)

Retrievals == {"normal_context", "step_back_context"}

\* C7: once a similarity search (or the reformulation before it) has failed,
\* the run can only fail: the synthesis LLM is never invoked and nothing is
\* printed; a result is printed only after both searches and the synthesis
\* call succeeded.
C7_RetrievalFailureAtomic ==
    /\ (\E k \in Retrievals : branch[k] = "failed") =>
          /\ stage \in {"parallel", "failed"}
          /\ synthCalls = 0
          /\ ~answer
          /\ ~printed
    /\ printed =>
          /\ \A k \in Retrievals : branch[k] = "done"
          /\ searches = {"question", "step_back"}
          /\ answer
          /\ error = "none"

\* One search failed, the other succeeded, and the run failed as a whole.
C7_Witness ==
    /\ stage = "failed"
    /\ branch["normal_context"] = "failed"
    /\ branch["step_back_context"] = "done"
    /\ synthCalls = 0
    /\ ~printed

\* C10: in every run of the chain the synthesis LLM is invoked exactly once,
\* and only after the search with the question and the search with the
\* reformulated question (itself made only after the reformulation) have both
\* been made and deduplicated.
C10_SynthesisOnceInEveryRun ==
    /\ synthCalls <= 1
    /\ (synthCalls >= 1 \/ stage = "llm") =>
          /\ \A k \in Branches : branch[k] = "done"
          /\ searches = {"question", "step_back"}
    /\ "step_back" \in searches => reformulated
    /\ (stage \in {"done", "failed"} /\ "invoke" \in acted) => synthCalls = 1

\* C10, as amended: the synthesis LLM is invoked at most once, and only when
\* both searches have been made and deduplicated; the step-back search is
\* made only after the reformulation; a run whose retrieval branches both
\* complete invokes the synthesis LLM exactly once before it ends, and a run
\* in which a branch fails never invokes it.
C10_BarrierBeforeSynthesis ==
    /\ synthCalls <= 1
    /\ (synthCalls >= 1 \/ stage = "llm") =>
          /\ \A k \in Branches : branch[k] = "done"
          /\ searches = {"question", "step_back"}
    /\ "step_back" \in searches => reformulated
    /\ branch["step_back_context"] \in {"union", "done"} =>
          "step_back" \in searches
    /\ branch["normal_context"] \in {"union", "done"} => "question" \in searches
    /\ (/\ stage \in {"print", "done", "failed"}
        /\ \A k \in Branches : branch[k] = "done")
       => synthCalls = 1
    /\ (\E k \in Branches : branch[k] = "failed") => synthCalls = 0

\* The run is over, the result printed, after exactly one synthesis call
\* that followed both searches.
C10_Witness ==
    /\ stage = "done"
    /\ printed
    /\ synthCalls = 1
    /\ searches = {"question", "step_back"}

====
